---------------------------- MODULE Spec2Model ----------------------------
(***************************************************************************)
(* Job lifecycle of the video editing service: the submission route, the   *)
(* Redis job store, the Celery task process_video_task with its retry      *)
(* policy, the VideoProcessor pipeline and the status / result routes.     *)
(***************************************************************************)
EXTENDS Integers, Sequences, FiniteSets, TLC

VARIABLES
    store,      \* Redis hashes job:{job_id}: job id -> hash (field -> value)
    expiry,     \* Redis key expiry of job:{job_id}: job id -> deadline, or -1
                \* when the key has none (what TTL answers)
    queue,      \* broker queue "video_processing": task messages, FIFO
    eta,        \* retry messages waiting for their countdown
    worker,     \* pool slot -> the task it executes, or Idle
    nextId,     \* the next fresh uuid4
    response,   \* the last HTTP response sent by the API
    redis_up,   \* whether Redis commands succeed (FALSE: they raise)
    clock,      \* datetime.utcnow(), in seconds
    assets,     \* the files under settings.assets_path: <<category, filename>>
    files,      \* the other files on disk: <<directory, filename>>
    task_state, \* Celery's state of the task of each job
    runs        \* how many times run_processing was entered for each job

vars ==
    <<store, expiry, queue, eta, worker, nextId, response, redis_up, clock,
      assets, files, task_state, runs>>

----------------------------------------------------------------------------
(* Bounds of the model *)

\* number of jobs submitted in Spec
MaxJobs == 1
\* number of jobs submitted in PoolSpec (more than the pool has processes)
PoolJobs == 2
\* number of jobs submitted in ApiSpec
ApiJobs == 1
\* depth at which the interpreter raises RecursionError
MaxCallDepth == 3
\* how many times time passes in ExpirySpec
MaxTicks == 2
\* number of worker instances in BrokerSpec, each with its own pool
Nodes == 2
\* executions of a job up to which the broker redelivers its message
MaxRedeliveries == 1

\* settings.max_concurrent_jobs, the worker_concurrency of the pool: the
\* number of pool processes the model is checked with
max_concurrent_jobs == 1

(* Program constants *)

\* @celery_app.task(max_retries=2), self.retry(max_retries=2)
max_retries == 2
\* settings.job_expiry_hours
job_expiry_hours == 24

None == "None"
\* a pool process that executes no task
Idle == [pc |-> "idle"]

Max(a, b) == IF a >= b THEN a ELSE b
Range(seq) == { seq[i] : i \in DOMAIN seq }

\* the uuid4 values the model draws, in the order they are drawn
JobIds == 1..Max(MaxJobs, Max(PoolJobs, ApiJobs))
Workers == 1..max_concurrent_jobs

----------------------------------------------------------------------------
(* Python values *)

\* str(progress) of a progress value given in tenths: 3 is 0.3, "0.3"
str_progress(p) == ToString(p \div 10) \o "." \o ToString(p % 10)

\* the progress values the program writes, in tenths
ProgressValues == 0..10

\* float(s) raises no ValueError
float_parses(s) == \E p \in ProgressValues : str_progress(p) = s

\* float(s), in tenths, of a string that parses
float(s) == CHOOSE p \in ProgressValues : str_progress(p) = s

\* str.strip() on a string given as a sequence of characters
RECURSIVE lstrip(_)
lstrip(s) == IF s /= <<>> /\ Head(s) = " " THEN lstrip(Tail(s)) ELSE s

RECURSIVE rstrip(_)
rstrip(s) ==
    IF s /= <<>> /\ s[Len(s)] = " " THEN rstrip(SubSeq(s, 1, Len(s) - 1)) ELSE s

strip(s) == rstrip(lstrip(s))

\* datetime.utcnow().isoformat()
utcnow == clock

----------------------------------------------------------------------------
(* Redis commands on the hashes job:{job_id} *)

EmptyHash == [f \in {} |-> None]

\* a write that replaces the hash by the mapping
hset_replace(h, mapping) == mapping

\* HSET key mapping: sets the given fields, keeps the others, creates the key
hset(h, mapping) ==
    [f \in (DOMAIN h) \cup (DOMAIN mapping) |->
        IF f \in DOMAIN mapping THEN mapping[f] ELSE h[f]]

\* HGETALL key: the empty dict when the key does not exist
hgetall(job_id) == store[job_id]

\* dict.get(key)
get(d, key) == IF key \in DOMAIN d THEN d[key] ELSE None

\* the commands of redis_client start or stop to raise (the connection to
\* settings.redis_url is lost or restored, or the server refuses writes)
redis_changes ==
    /\ redis_up' = ~redis_up
    /\ UNCHANGED <<store, expiry, queue, eta, worker, nextId, response, clock,
                   assets, files, task_state, runs>>

\* the key has an expiry and it has passed at time now
expired(deadline, now) == deadline >= 0 /\ deadline <= now

\* time passes, settings.job_expiry_hours hours at a time, and Redis removes
\* the keys whose expiry has passed
time_passes ==
    /\ clock < MaxTicks * job_expiry_hours * 3600
    /\ clock' = clock + job_expiry_hours * 3600
    /\ store' = [j \in JobIds |->
                    IF expired(expiry[j], clock') THEN EmptyHash ELSE store[j]]
    /\ expiry' = [j \in JobIds |->
                    IF expired(expiry[j], clock') THEN -1 ELSE expiry[j]]
    /\ UNCHANGED <<queue, eta, worker, nextId, response, redis_up, assets,
                   files, task_state, runs>>

----------------------------------------------------------------------------
(* app.core.storage *)

\* the hash after store_job_info's hset, given the job_data of the route;
\* hset is taken to store every value of the mapping as it is given
store_job_info_hash(job_id, job_data) ==
    hset(store[job_id], hset(job_data, [created_at |-> utcnow]))

\* store_job_info: TRUE when stored, FALSE when Redis raised
store_job_info_ok == redis_up

store_job_info_store(job_id, job_data) ==
    IF redis_up
    THEN [store EXCEPT ![job_id] = store_job_info_hash(job_id, job_data)]
    ELSE store

store_job_info_expiry(job_id) ==
    IF redis_up
    THEN [expiry EXCEPT ![job_id] = clock + job_expiry_hours * 3600]
    ELSE expiry

\* Python's "not d" for a dict or None
falsy(d) == DOMAIN d = {}

\* get_job_status: the hash with progress converted to float (0.0 when it
\* does not parse); None, written as the empty dict (both are falsy), when
\* there is no hash or Redis raised
get_job_status(job_id) ==
    IF ~redis_up THEN EmptyHash
    ELSE LET job_data == hgetall(job_id) IN
         IF falsy(job_data) THEN EmptyHash
         ELSE IF "progress" \in DOMAIN job_data
              THEN hset(job_data,
                        [progress |->
                            IF float_parses(job_data["progress"])
                            THEN float(job_data["progress"])
                            ELSE 0])
              ELSE job_data

\* the hash after update_job_status(job_id, **updates)
update_job_status_hash(h, updates) ==
    LET converted ==
            IF "progress" \in DOMAIN updates
            THEN hset(updates, [progress |-> str_progress(updates["progress"])])
            ELSE updates
    IN  hset(h, hset(converted, [updated_at |-> utcnow]))

update_job_status(job_id, updates) ==
    IF redis_up
    THEN [store EXCEPT ![job_id] = update_job_status_hash(store[job_id], updates)]
    ELSE store

\* the output file {job_id}_final.mp4 in settings.local_storage_path
final_name(job_id) == ToString(job_id) \o "_final.mp4"

\* a download URL made of the path of the file instead of its base name
get_download_url_of_path(file_name) == "/api/v1/download/outputs/" \o file_name

\* get_download_url with settings.storage_type = "local"
get_download_url(file_name) == "/api/v1/download/" \o file_name

----------------------------------------------------------------------------
(* app.api.routes: POST /process *)

\* ProcessVideoRequest bodies: a customer_name is a sequence of characters,
\* a missing field is None
Overlays ==
    { EmptyHash,
      [add_customer_text |-> TRUE, watermark_path |-> "logo.png"] }

ValidRequests ==
    [ video_url : {"http://v"}, customer_name : {<<" ", "a">>},
      intro_clip : {None}, outro_clip : {None}, transition_style : {"fade"},
      overlay_settings : Overlays, encoding_preset : {"standard"} ]

PlainRequests == { r \in ValidRequests : r.overlay_settings = EmptyHash }

InvalidRequests ==
    [ video_url : {"http://v"}, customer_name : {<<>>, <<" ">>},
      intro_clip : {None}, outro_clip : {None}, transition_style : {"fade"},
      overlay_settings : {EmptyHash}, encoding_preset : {"standard"} ]
    \cup
    [ video_url : {None}, customer_name : {<<" ", "a">>},
      intro_clip : {None}, outro_clip : {None}, transition_style : {"fade"},
      overlay_settings : {EmptyHash}, encoding_preset : {"standard"} ]

AllRequests == ValidRequests \cup InvalidRequests

\* FastAPI validates the body against ProcessVideoRequest before the route
\* runs: video_url is a required field (so is customer_name: the requests of
\* the model all carry one, possibly empty)
request_model_valid(request) == request.video_url /= None

\* validation_error without the strip(): only the empty string is refused
validation_error_no_strip(request) ==
    IF request.video_url = None THEN "video_url is required"
    ELSE IF request.customer_name = <<>> THEN "customer_name is required"
         ELSE None

\* the HTTPException the validation of the route raises, or None
validation_error(request) ==
    IF request.video_url = None THEN "video_url is required"
    ELSE IF request.customer_name = <<>> \/ Len(strip(request.customer_name)) = 0
         THEN "customer_name is required"
         ELSE None

\* the status code sent for an HTTPException raised in the try block of the
\* route: its "except Exception" catches it and raises HTTPException(500)
process_video_except(raised_code) == 500

job_data_of(job_id, request) ==
    [ job_id |-> job_id, status |-> "pending", progress |-> str_progress(0),
      message |-> "Job queued for processing",
      video_url |-> request.video_url,
      customer_name |-> request.customer_name,
      intro_clip |-> request.intro_clip, outro_clip |-> request.outro_clip,
      transition_style |-> request.transition_style,
      overlay_settings |-> request.overlay_settings,
      encoding_preset |-> request.encoding_preset ]

\* the message process_video_task.delay(...) publishes
task_message(job_id, request) ==
    [ job_id |-> job_id, retries |-> 0,
      intro_clip |-> request.intro_clip, outro_clip |-> request.outro_clip,
      transition_style |-> request.transition_style,
      overlay_settings |-> request.overlay_settings ]

\* the request of a call that has no body
NoRequest ==
    [ video_url |-> None, customer_name |-> <<>>, intro_clip |-> None,
      outro_clip |-> None, transition_style |-> None,
      overlay_settings |-> EmptyHash, encoding_preset |-> None ]

\* an HTTP exchange: the route, its job_id and request, and the answer; the
\* detail of an error is a sequence of strings
http(op, job_id, request, code, body) ==
    [ op |-> op, job_id |-> job_id, request |-> request, status_code |-> code,
      body |-> body ]

api_process_video(request, limit) ==
    LET job_id == nextId IN
    IF ~request_model_valid(request)
    THEN /\ response' = http("process", 0, request, 422,
                             [detail |-> <<"field required">>])
         /\ UNCHANGED <<store, expiry, queue, eta, worker, nextId, redis_up,
                        clock, assets, files, task_state, runs>>
    ELSE IF validation_error(request) /= None
    THEN /\ response' = http("process", 0, request, process_video_except(400),
                             [detail |-> <<validation_error(request)>>])
         /\ UNCHANGED <<store, expiry, queue, eta, worker, nextId, redis_up,
                        clock, assets, files, task_state, runs>>
    ELSE /\ nextId <= limit
         /\ store' = store_job_info_store(job_id, job_data_of(job_id, request))
         /\ expiry' = store_job_info_expiry(job_id)
         /\ queue' = Append(queue, task_message(job_id, request))
         /\ nextId' = nextId + 1
         /\ response' = http("process", 0, request, 200,
                             [job_id |-> job_id, status |-> "pending"])
         /\ UNCHANGED <<eta, worker, redis_up, clock, assets, files, task_state,
                        runs>>

----------------------------------------------------------------------------
(* Celery: the pool of worker_concurrency processes, acks_late, prefetch 1 *)

\* the locals of a task that starts to execute message m
Running(m) ==
    [ pc |-> "start", msg |-> m, exc |-> None, temp_files |-> <<>>,
      video_segments |-> <<>>, current_video |-> <<None, None>>,
      success |-> FALSE, pos |-> None ]

\* the pool hands a task to a free process; the processes are
\* interchangeable, the model names the lowest free one
free_slot(w) ==
    /\ worker[w].pc = "idle"
    /\ \A v \in DOMAIN worker : v < w => worker[v].pc /= "idle"

\* a process takes the next message of the queue
task_receive(w) ==
    /\ free_slot(w)
    /\ queue /= <<>>
    /\ worker' = [worker EXCEPT ![w] = Running(Head(queue))]
    /\ queue' = Tail(queue)
    /\ task_state' = [task_state EXCEPT ![Head(queue).job_id] = "STARTED"]
    /\ runs' = [runs EXCEPT ![Head(queue).job_id] = @ + 1]
    /\ UNCHANGED <<store, expiry, eta, nextId, response, redis_up, clock,
                   assets, files>>

\* the countdown of a retry message has passed and a process executes it
task_retry_due(w) ==
    /\ free_slot(w)
    /\ \E m \in eta :
          /\ worker' = [worker EXCEPT ![w] = Running(m)]
          /\ eta' = eta \ {m}
          /\ task_state' = [task_state EXCEPT ![m.job_id] = "STARTED"]
          /\ runs' = [runs EXCEPT ![m.job_id] = @ + 1]
    /\ UNCHANGED <<store, expiry, queue, nextId, response, redis_up, clock,
                   assets, files>>

\* the pool processes of worker instance n
pool_of(n) == ((n - 1) * max_concurrent_jobs + 1)..(n * max_concurrent_jobs)
ClusterWorkers == 1..(Nodes * max_concurrent_jobs)

\* the messages delivered to the processes ws and not acknowledged: with
\* task_acks_late the message of a task is acknowledged when the task returns
\* or raises
unacked(ws) == { worker[w].msg : w \in { v \in ws : worker[v].pc /= "idle" } }

RECURSIVE restored(_, _)
restored(q, msgs) ==
    IF msgs = {} THEN q
    ELSE LET m == CHOOSE m \in msgs : TRUE
         IN  restored(Append(q, m), msgs \ {m})

\* the pool process w is killed while it executes a task: the worker raises
\* WorkerLostError for the task and, task_reject_on_worker_lost not being
\* set, acknowledges its message
process_lost(w) ==
    /\ worker[w].pc /= "idle"
    /\ worker' = [worker EXCEPT ![w] = Idle]
    /\ task_state' = [task_state EXCEPT ![worker[w].msg.job_id] = "FAILURE"]
    /\ UNCHANGED <<store, expiry, queue, eta, nextId, response, redis_up,
                   clock, assets, files, runs>>

\* the worker instance n stops abruptly: the messages its processes had not
\* acknowledged are restored to the queue by the broker
node_lost(n) ==
    /\ unacked(pool_of(n)) /= {}
    /\ \A m \in unacked(pool_of(n)) : runs[m.job_id] <= MaxRedeliveries
    /\ worker' = [w \in DOMAIN worker |->
                     IF w \in pool_of(n) THEN Idle ELSE worker[w]]
    /\ queue' = restored(queue, unacked(pool_of(n)))
    /\ UNCHANGED <<store, expiry, eta, nextId, response, redis_up, clock,
                   assets, files, task_state, runs>>

\* the task of process w has run for longer than the visibility timeout of
\* the Redis broker without acknowledging its message (no step of the task
\* but the download has a time limit): the broker restores the message to
\* the queue while the task goes on
visibility_timeout(w) ==
    /\ worker[w].pc /= "idle"
    /\ runs[worker[w].msg.job_id] <= MaxRedeliveries
    /\ worker[w].msg \notin Range(queue)
    /\ queue' = Append(queue, worker[w].msg)
    /\ UNCHANGED <<store, expiry, eta, worker, nextId, response, redis_up,
                   clock, assets, files, task_state, runs>>

----------------------------------------------------------------------------
(* app.workers.tasks.process_video_task and VideoProcessor.process_video *)

requested(overlay_settings, key) == key \in DOMAIN overlay_settings

\* a path is <<directory, filename>>: os.path.join(directory, filename).
\* The directories exist (init_storage creates them); the names "", "." and
\* ".." joined to a directory name a directory
os_path_isfile(path) == path \in assets \cup files
os_path_isdir(path) == path[2] \in {"", ".", ".."}
os_path_exists(path) == os_path_isfile(path) \/ os_path_isdir(path)

\* the job-scoped paths of process_video under settings.temp_storage_path
\* and its output under settings.local_storage_path
input_video(job_id) == <<"temp", ToString(job_id) \o "_input.mp4">>
concat_output(job_id) == <<"temp", ToString(job_id) \o "_concat.mp4">>
text_overlay_video(job_id) == <<"temp", ToString(job_id) \o "_text.mp4">>
watermark_video(job_id) == <<"temp", ToString(job_id) \o "_watermark.mp4">>
final_output(job_id) == <<"outputs", ToString(job_id) \o "_final.mp4">>

\* the file list concatenate_videos writes with NamedTemporaryFile (in the
\* system's temporary directory; the model names it after the job)
filelist_path(job_id) == <<"tmp", ToString(job_id) \o ".txt">>

\* temp_files.append(...): the path process_video registers after a
\* checkpoint
registered_at(pc, job_id) ==
    CASE pc = "pv_start"  -> <<input_video(job_id)>>
      [] pc = "pv_concat" -> <<concat_output(job_id)>>
      [] pc = "pv_text"   -> <<text_overlay_video(job_id)>>
      [] pc = "pv_wm"     -> <<watermark_video(job_id)>>
      [] OTHER            -> <<>>

\* the finally block of process_video: every registered file that exists
\* is removed
cleanup(disk, temp_files) == disk \ Range(temp_files)

\* progress_callback(progress, message): a failed update is only logged
progress_callback(job_id, progress, message) ==
    update_job_status(job_id,
        [status |-> "processing", progress |-> progress, message |-> message])

\* the checkpoints of process_video: progress in tenths and message
Checkpoint ==
    [ pv_start      |-> [progress |-> 1, message |-> "Starting video processing..."],
      pv_downloaded |-> [progress |-> 3, message |-> "Video downloaded, processing..."],
      pv_concat     |-> [progress |-> 5, message |-> "Concatenating video segments..."],
      pv_text       |-> [progress |-> 7, message |-> "Adding customer text overlay..."],
      pv_wm         |-> [progress |-> 8, message |-> "Adding watermark..."],
      pv_encode     |-> [progress |-> 9, message |-> "Final encoding..."],
      pv_done       |-> [progress |-> 10, message |-> "Video processing completed!"] ]

\* where process_video continues after the overlay blocks
after_text(o) == IF requested(o, "watermark_path") THEN "pv_wm" ELSE "pv_encode"
after_concat(o) == IF requested(o, "add_customer_text") THEN "pv_text" ELSE after_text(o)

\* the statement that follows each checkpoint
after_checkpoint(pc, o) ==
    CASE pc = "pv_start"      -> "download"
      [] pc = "pv_downloaded" -> "pv_concat"
      [] pc = "pv_concat"     -> "concat"
      [] pc = "pv_text"       -> after_text(o)
      [] pc = "pv_wm"         -> "watermark"
      [] pc = "pv_encode"     -> "encode"
      [] pc = "pv_done"       -> "completed"

\* the external operations whose failure raises, the exception raised and
\* the statement that follows a success
Stage ==
    [ download |-> [error |-> "Failed to download video", next |-> "pv_downloaded"],
      concat   |-> [error |-> "Failed to concatenate videos", next |-> "after_concat"],
      encode   |-> [error |-> "Failed to encode final video", next |-> "pv_done"] ]

Stages == DOMAIN Stage

\* run_processing: the first update, status processing and progress 0.0
run_start(w) ==
    /\ worker[w].pc = "start"
    /\ store' = update_job_status(worker[w].msg.job_id,
                    [status |-> "processing", progress |-> 0,
                     message |-> "Starting video processing..."])
    /\ worker' = [worker EXCEPT ![w].pc = "pv_start"]
    /\ UNCHANGED <<expiry, queue, eta, nextId, response, redis_up, clock,
                   assets, files, task_state, runs>>

\* a segment list that depends on the transition: the list is handed to
\* concatenate_videos only for "cut"
segments_by_style(m) ==
    IF m.transition_style = "cut" THEN << input_video(m.job_id) >> ELSE <<>>

\* the segments process_video concatenates: intro and outro only when the
\* named file exists
segments_of(m) ==
    (IF m.intro_clip /= None /\ os_path_exists(<<"intros", m.intro_clip>>)
     THEN << <<"intros", m.intro_clip>> >> ELSE <<>>)
    \o << input_video(m.job_id) >> \o
    (IF m.outro_clip /= None /\ os_path_exists(<<"outros", m.outro_clip>>)
     THEN << <<"outros", m.outro_clip>> >> ELSE <<>>)

\* process_video: await progress_callback(...) and the local statements up
\* to the next external operation: the registration of a temporary file,
\* the segment list (built right before "Concatenating video segments..."),
\* and, after "Video processing completed!", the return through finally
pv_progress(w) ==
    LET t == worker[w] IN
    /\ t.pc \in DOMAIN Checkpoint
    /\ store' = progress_callback(t.msg.job_id, Checkpoint[t.pc].progress,
                                  Checkpoint[t.pc].message)
    /\ worker' = [worker EXCEPT ![w] =
          [t EXCEPT !.pc = after_checkpoint(t.pc, t.msg.overlay_settings),
                    !.temp_files = @ \o registered_at(t.pc, t.msg.job_id),
                    !.video_segments =
                       IF t.pc = "pv_concat" THEN segments_of(t.msg)
                       ELSE t.video_segments]]
    /\ files' = IF t.pc = "pv_done" THEN cleanup(files, t.temp_files)
                ELSE files
    /\ UNCHANGED <<expiry, queue, eta, nextId, response, redis_up, clock,
                   assets, task_state, runs>>

\* the outcomes of an external operation
outcomes(op, faults) == IF op \in faults THEN {TRUE, FALSE} ELSE {TRUE}

\* process_video: download_video, raise when it returns False
pv_download(w, t, ok) ==
    IF ok
    THEN /\ worker' = [worker EXCEPT ![w] = [t EXCEPT !.pc = Stage[t.pc].next]]
         /\ files' = files \cup {input_video(t.msg.job_id)}
    ELSE /\ worker' = [worker EXCEPT ![w] =
                         [t EXCEPT !.pc = "failed", !.exc = Stage[t.pc].error]]
         /\ files' = cleanup(files, t.temp_files)

\* process_video: concatenate_videos, raise when it returns False.
\* concatenate_videos writes the file list, runs ffmpeg (which fails when a
\* listed file does not exist) and unlinks the file list in a finally
\* block; an exception of the unlink is caught by the outer except, which
\* returns False
pv_concat(w, t, ok, unlinked) ==
    LET job_id == t.msg.job_id
        success == ok /\ \A seg \in Range(t.video_segments) : os_path_isfile(seg)
        written == files
                     \cup (IF success THEN {concat_output(job_id)} ELSE {})
                     \cup (IF unlinked THEN {} ELSE {filelist_path(job_id)})
    IN  IF success /\ unlinked
        THEN /\ worker' = [worker EXCEPT ![w] =
                   [t EXCEPT !.pc = after_concat(t.msg.overlay_settings),
                             !.current_video = concat_output(job_id),
                             !.success = success]]
             /\ files' = written
        ELSE /\ worker' = [worker EXCEPT ![w] =
                   [t EXCEPT !.pc = "failed", !.exc = Stage[t.pc].error,
                             !.success = success]]
             /\ files' = cleanup(written, t.temp_files)

\* process_video: encode_video, raise when it returns False; ffmpeg fails
\* when its input does not exist
pv_encode(w, t, ok) ==
    IF ok /\ os_path_isfile(t.current_video)
    THEN /\ worker' = [worker EXCEPT ![w] = [t EXCEPT !.pc = Stage[t.pc].next]]
         /\ files' = files \cup {final_output(t.msg.job_id)}
    ELSE /\ worker' = [worker EXCEPT ![w] =
                         [t EXCEPT !.pc = "failed", !.exc = Stage[t.pc].error]]
         /\ files' = cleanup(files, t.temp_files)

\* process_video: the operations whose failure raises; process_video then
\* runs its finally block and the except block of run_processing is entered
pv_stage(w, faults) ==
    LET t == worker[w] IN
    /\ t.pc \in Stages
    /\ \E ok \in outcomes(t.pc, faults) :
          CASE t.pc = "download" -> pv_download(w, t, ok)
            [] t.pc = "concat" ->
                  \E unlinked \in outcomes("unlink", faults) :
                      pv_concat(w, t, ok, unlinked)
            [] t.pc = "encode" -> pv_encode(w, t, ok)
    /\ UNCHANGED <<store, expiry, queue, eta, nextId, response, redis_up,
                   clock, assets, task_state, runs>>

\* add_watermark: the overlay expressions of the anchor positions
positions ==
    [ p \in {"top-left", "top-right", "bottom-left", "bottom-right", "center"} |->
        CASE p = "top-left"     -> "10:10"
          [] p = "top-right"    -> "main_w-overlay_w-10:10"
          [] p = "bottom-left"  -> "10:main_h-overlay_h-10"
          [] p = "bottom-right" -> "main_w-overlay_w-10:main_h-overlay_h-10"
          [] p = "center"       -> "(main_w-overlay_w)/2:(main_h-overlay_h)/2" ]

\* add_watermark: positions.get(position, positions["bottom-right"])
add_watermark_pos(position) ==
    IF position \in DOMAIN positions THEN positions[position]
    ELSE positions["bottom-right"]

\* add_watermark(..., position: str = "bottom-right")
default_position == "bottom-right"

\* process_video: add_watermark(current_video, watermark_video,
\* watermark_path) when the logo exists, called without position; pos is
\* the overlay expression of the ffmpeg command. When add_watermark returns
\* False the run goes on and the video without watermark is encoded
pv_watermark(w, faults) ==
    LET t == worker[w]
        job_id == t.msg.job_id
        watermark_path == <<"logos", t.msg.overlay_settings.watermark_path>>
    IN
    /\ t.pc = "watermark"
    /\ \E ok \in outcomes("watermark", faults) :
          IF os_path_exists(watermark_path)
          THEN IF ok /\ os_path_isfile(t.current_video)
               THEN /\ worker' = [worker EXCEPT ![w] =
                          [t EXCEPT !.pc = "pv_encode",
                                    !.pos = add_watermark_pos(default_position),
                                    !.current_video = watermark_video(job_id)]]
                    /\ files' = files \cup {watermark_video(job_id)}
               ELSE /\ worker' = [worker EXCEPT ![w] =
                          [t EXCEPT !.pc = "pv_encode",
                                    !.pos = add_watermark_pos(default_position)]]
                    /\ files' = files
          ELSE /\ worker' = [worker EXCEPT ![w] = [t EXCEPT !.pc = "pv_encode"]]
               /\ files' = files
    /\ UNCHANGED <<store, expiry, queue, eta, nextId, response, redis_up,
                   clock, assets, task_state, runs>>

\* completed_updates with the status of the progress updates
completed_updates_stale(download_url) ==
    [ status |-> "processing", progress |-> 10,
      message |-> "Video processing completed successfully",
      result_url |-> download_url, completed_at |-> utcnow ]

\* run_processing: the update to completed, and the task returns
completed_updates(download_url) ==
    [ status |-> "completed", progress |-> 10,
      message |-> "Video processing completed successfully",
      result_url |-> download_url, completed_at |-> utcnow ]

run_completed(w) ==
    /\ worker[w].pc = "completed"
    /\ store' = update_job_status(worker[w].msg.job_id,
                    completed_updates(
                        get_download_url(final_name(worker[w].msg.job_id))))
    /\ worker' = [worker EXCEPT ![w] = Idle]
    /\ task_state' = [task_state EXCEPT ![worker[w].msg.job_id] = "SUCCESS"]
    /\ UNCHANGED <<expiry, queue, eta, nextId, response, redis_up, clock,
                   assets, files, runs>>

\* what the environment of upload_to_s3_and_get_url does: the three settings
\* (aws_access_key_id, aws_secret_access_key, s3_bucket) are all set,
\* s3_client.upload_file returns, generate_presigned_url returns
S3Outcomes == [ configured : BOOLEAN, uploaded : BOOLEAN, presigned : BOOLEAN ]

\* the presigned URL of the key processed-videos/{filename}
presigned_url(file_name) == "https://s3/processed-videos/" \o file_name

\* the local file is removed as soon as the upload has returned
s3_removes_file_early(s3) == s3.configured /\ s3.uploaded

\* os.remove(file_path) is reached: no statement before it raised
s3_removes_file(s3) == s3.configured /\ s3.uploaded /\ s3.presigned

\* upload_to_s3_and_get_url: the presigned URL, or the local reference when
\* any statement raised
upload_to_s3_and_get_url(file_name, s3) ==
    IF s3.configured /\ s3.uploaded /\ s3.presigned
    THEN presigned_url(file_name)
    ELSE "/api/v1/download/" \o file_name

\* run_processing with settings.storage_type = "s3": get_download_url, the
\* update to completed, and the task returns
run_completed_s3(w, s3) ==
    LET job_id == worker[w].msg.job_id IN
    /\ worker[w].pc = "completed"
    /\ store' = update_job_status(job_id,
                    completed_updates(
                        upload_to_s3_and_get_url(final_name(job_id), s3)))
    /\ files' = IF s3_removes_file(s3)
                THEN files \ {final_output(job_id)} ELSE files
    /\ worker' = [worker EXCEPT ![w] = Idle]
    /\ task_state' = [task_state EXCEPT ![job_id] = "SUCCESS"]
    /\ UNCHANGED <<expiry, queue, eta, nextId, response, redis_up, clock,
                   assets, runs>>

\* failed_updates with the status of the progress updates
failed_updates_stale(error_msg) ==
    [ status |-> "processing", progress |-> 0,
      message |-> "Video processing failed", error |-> error_msg ]

\* run_processing: the except block writes failed with the error message
failed_updates(error_msg) ==
    [ status |-> "failed", progress |-> 0,
      message |-> "Video processing failed", error |-> error_msg ]

run_failed(w) ==
    /\ worker[w].pc = "failed"
    /\ store' = update_job_status(worker[w].msg.job_id,
                                  failed_updates(worker[w].exc))
    /\ worker' = [worker EXCEPT ![w].pc = "retry"]
    /\ UNCHANGED <<expiry, queue, eta, nextId, response, redis_up, clock,
                   assets, files, task_state, runs>>

\* retries_exhausted one retry early
retries_exhausted_early(retries) == retries + 1 >= max_retries

\* Task.retry: the retries are exhausted when request.retries + 1 exceeds
\* max_retries, and the exception is raised instead of Retry
retries_exhausted(retries) == retries + 1 > max_retries

\* run_processing: raise self.retry(exc=e, countdown=60, max_retries=2)
task_retry(w) ==
    /\ worker[w].pc = "retry"
    /\ IF retries_exhausted(worker[w].msg.retries)
       THEN /\ task_state' = [task_state EXCEPT ![worker[w].msg.job_id] = "FAILURE"]
            /\ eta' = eta
       ELSE /\ task_state' = [task_state EXCEPT ![worker[w].msg.job_id] = "RETRY"]
            /\ eta' = eta \cup {[worker[w].msg EXCEPT !.retries = @ + 1]}
    /\ worker' = [worker EXCEPT ![w] = Idle]
    /\ UNCHANGED <<store, expiry, queue, nextId, response, redis_up, clock,
                   assets, files, runs>>

\* the steps of the pool process w
worker_step(w, faults) ==
    \/ task_receive(w)
    \/ task_retry_due(w)
    \/ run_start(w)
    \/ pv_progress(w)
    \/ pv_stage(w, faults)
    \/ run_completed(w)
    \/ run_failed(w)
    \/ task_retry(w)

----------------------------------------------------------------------------
(* The system *)

\* the state after startup, with the pool processes pool
InitState(pool) ==
    /\ store = [j \in JobIds |-> EmptyHash]
    /\ expiry = [j \in JobIds |-> -1]
    /\ queue = <<>>
    /\ eta = {}
    /\ worker = [w \in pool |-> Idle]
    /\ nextId = 1
    /\ response = http("none", 0, NoRequest, 0, EmptyHash)
    /\ redis_up = TRUE
    /\ clock = 0
    /\ assets = {}
    /\ files = {}
    /\ task_state = [j \in JobIds |-> "NONE"]
    /\ runs = [j \in JobIds |-> 0]

Init == InitState(Workers)

----------------------------------------------------------------------------
(* app.api.routes: GET /status/{job_id}, GET /result/{job_id} *)

\* what a call returns or raises
returned(value) == [raised |-> "no", status_code |-> 200, value |-> value]
raised_http(code, detail) ==
    [raised |-> "HTTPException", status_code |-> code, value |-> [detail |-> detail]]

\* JobStatusResponse(**job_data)
JobStatusResponse(job_data) ==
    [ job_id |-> get(job_data, "job_id"), status |-> get(job_data, "status"),
      progress |-> get(job_data, "progress"), message |-> get(job_data, "message"),
      result_url |-> get(job_data, "result_url"), error |-> get(job_data, "error"),
      created_at |-> get(job_data, "created_at"),
      completed_at |-> get(job_data, "completed_at") ]

\* the route get_job_status. The module imports get_job_status from
\* app.core.storage and then defines the route under the same name, so the
\* name called in the body of the route (and of get_job_result) is the route:
\* the call nests until the interpreter raises RecursionError, which the
\* innermost "except Exception" turns into HTTPException(500); every frame
\* above re-raises it ("except HTTPException: raise")
RECURSIVE route_get_job_status(_, _)
route_get_job_status(job_id, depth) ==
    IF depth >= MaxCallDepth
    THEN raised_http(500, <<"maximum recursion depth exceeded">>)
    ELSE LET job_data == route_get_job_status(job_id, depth + 1) IN
         IF job_data.raised = "HTTPException" THEN job_data
         ELSE IF falsy(job_data.value) THEN raised_http(404, <<"Job not found">>)
         ELSE returned(JobStatusResponse(job_data.value))

\* the route get_job_result
route_get_job_result(job_id) ==
    LET job_data == route_get_job_status(job_id, 1) IN
    IF job_data.raised = "HTTPException" THEN job_data
    ELSE IF falsy(job_data.value) THEN raised_http(404, <<"Job not found">>)
    ELSE IF job_data.value["status"] /= "completed"
         THEN raised_http(400, <<"Job is not completed. Current status: ",
                                 job_data.value["status"]>>)
         ELSE returned([ job_id |-> job_id, status |-> job_data.value["status"],
                         download_url |-> get(job_data.value, "result_url"),
                         completed_at |-> get(job_data.value, "completed_at") ])

api_get_job_status(job_id) ==
    /\ response' = LET r == route_get_job_status(job_id, 0)
                   IN  http("status", job_id, NoRequest, r.status_code, r.value)
    /\ UNCHANGED <<store, expiry, queue, eta, worker, nextId, redis_up, clock,
                   assets, files, task_state, runs>>

api_get_job_result(job_id) ==
    /\ response' = LET r == route_get_job_result(job_id)
                   IN  http("result", job_id, NoRequest, r.status_code, r.value)
    /\ UNCHANGED <<store, expiry, queue, eta, worker, nextId, redis_up, clock,
                   assets, files, task_state, runs>>

\* GET /jobs: list_jobs returns {"jobs": []}
list_jobs == [jobs |-> <<>>]

api_list_jobs ==
    /\ response' = http("jobs", 0, NoRequest, 200, list_jobs)
    /\ UNCHANGED <<store, expiry, queue, eta, worker, nextId, redis_up, clock,
                   assets, files, task_state, runs>>

\* a cancellation that revokes the messages of the job that wait in the queue
cancel_job_queue_revoking(job_id) ==
    SelectSeq(queue, LAMBDA m : m.job_id /= job_id)

\* DELETE /job/{job_id}: the queue after cancel_job, which revokes nothing
cancel_job_queue(job_id) == queue

\* DELETE /job/{job_id}: cancel_job returns its message and does nothing else
api_cancel_job(job_id) ==
    /\ response' = http("cancel", job_id, NoRequest, 200,
                        [message |-> <<"Job ", job_id, " cancellation requested">>])
    /\ queue' = cancel_job_queue(job_id)
    /\ UNCHANGED <<store, expiry, eta, worker, nextId, redis_up, clock, assets,
                   files, task_state, runs>>

----------------------------------------------------------------------------
(* File names of requests, app.api.download and the asset routes of
   app.web.routes *)

\* the file name of a request is a sequence of pieces: the separator "/", a
\* character that is neither alphanumeric nor one of "._-" (" "), or a run of
\* characters that are; text is the string the pieces spell
RECURSIVE text(_)
text(name) == IF name = <<>> THEN "" ELSE Head(name) \o text(Tail(name))

\* os.path.basename: what follows the last separator
RECURSIVE basename(_)
basename(name) ==
    IF name = <<>> \/ name[Len(name)] = "/" THEN <<>>
    ELSE Append(basename(SubSeq(name, 1, Len(name) - 1)), name[Len(name)])

\* save_uploaded_file: the characters that are alphanumeric or in "._-"
safe_piece(piece) == piece \notin {"/", " "}
safe_filename(name) == SelectSeq(name, safe_piece)

\* a path parameter {filename} matches one non-empty path segment
path_param(filename) == filename /= <<>> /\ "/" \notin Range(filename)

\* a validation that accepts every category
valid_asset_type_any(asset_type) == TRUE

\* asset_type not in ["intros", "outros", "logos"]
valid_asset_type(asset_type) == asset_type \in {"intros", "outros", "logos"}

\* the request of a file route
file_request(asset_type, filename, large) ==
    [ asset_type |-> asset_type, filename |-> filename, large |-> large ]

error(code, detail) == [status_code |-> code, value |-> [detail |-> <<detail>>]]

\* return FileResponse(path=file_path): the response sends the file when the
\* path is a regular file and raises RuntimeError otherwise, after the route
\* has returned
FileResponse(file_path) ==
    IF os_path_isfile(file_path)
    THEN [status_code |-> 200, value |-> [path |-> file_path]]
    ELSE error(500, "Internal Server Error")

\* GET /download/{filename}
download_file(filename) ==
    LET safe_filename_ == text(basename(filename))
        file_path == <<"outputs", safe_filename_>>
    IN  IF ~path_param(filename) THEN error(404, "Not Found")
        ELSE IF ~os_path_exists(file_path) THEN error(404, "File not found")
        ELSE IF ~os_path_isfile(file_path) THEN error(404, "File not found")
        ELSE FileResponse(file_path)

\* GET /preview/{filename}
preview_file(filename) ==
    LET safe_filename_ == text(basename(filename))
        file_path == <<"outputs", safe_filename_>>
    IN  IF ~path_param(filename) THEN error(404, "Not Found")
        ELSE IF ~os_path_exists(file_path) THEN error(404, "File not found")
        ELSE FileResponse(file_path)

\* GET /asset/{asset_type}/{filename}
download_asset(asset_type, filename) ==
    LET safe_filename_ == text(basename(filename))
        file_path == <<asset_type, safe_filename_>>
    IN  IF ~path_param(filename) THEN error(404, "Not Found")
        ELSE IF ~valid_asset_type(asset_type) THEN error(400, "Invalid asset type")
        ELSE IF ~os_path_exists(file_path) THEN error(404, "Asset not found")
        ELSE FileResponse(file_path)

\* a route that reads the disk and changes nothing
file_route(op, request, r) ==
    /\ response' = http(op, 0, request, r.status_code, r.value)
    /\ UNCHANGED <<store, expiry, queue, eta, worker, nextId, redis_up, clock,
                   assets, files, task_state, runs>>

api_download_file(filename) ==
    file_route("download", file_request(None, filename, FALSE),
               download_file(filename))

api_preview_file(filename) ==
    file_route("preview", file_request(None, filename, FALSE),
               preview_file(filename))

api_download_asset(asset_type, filename) ==
    file_route("asset", file_request(asset_type, filename, FALSE),
               download_asset(asset_type, filename))

\* FileManager.save_uploaded_file(file_data, filename, subfolder): the path
\* written (no name in the model reaches max_filename_length)
save_uploaded_file(filename, subfolder) ==
    <<subfolder, text(safe_filename(filename))>>

\* POST /upload-asset; large: len(file_data) > settings.max_file_size
upload_asset(asset_type, filename, large) ==
    LET request == file_request(asset_type, filename, large)
        file_path == save_uploaded_file(filename, asset_type)
        rejected ==
            IF ~valid_asset_type(asset_type) THEN error(400, "Invalid asset type")
            ELSE IF filename = <<>> THEN error(400, "No file selected")
            ELSE IF large THEN error(400, "File too large")
            ELSE IF os_path_isdir(file_path) THEN error(500, "Upload failed")
            ELSE error(200, "")
    IN  /\ assets' = IF rejected.status_code = 200
                     THEN assets \cup {file_path} ELSE assets
        /\ response' =
              IF rejected.status_code = 200
              THEN http("upload", 0, request, 200,
                        [success |-> TRUE, filename |-> text(filename)])
              ELSE http("upload", 0, request, rejected.status_code,
                        rejected.value)
        /\ UNCHANGED <<store, expiry, queue, eta, worker, nextId, redis_up,
                       clock, files, task_state, runs>>

\* FileManager.delete_asset: True when the file existed and was removed
\* (os.remove of a directory raises, which is caught)
FileManager_delete_asset(asset_type, filename) ==
    /\ valid_asset_type(asset_type)
    /\ os_path_isfile(<<asset_type, text(filename)>>)

\* DELETE /delete-asset/{asset_type}/{filename}
delete_asset(asset_type, filename) ==
    LET request == file_request(asset_type, filename, FALSE)
        success == FileManager_delete_asset(asset_type, filename)
        r == IF ~path_param(filename) THEN error(404, "Not Found")
             ELSE IF ~valid_asset_type(asset_type)
                  THEN error(400, "Invalid asset type")
             ELSE IF success THEN [status_code |-> 200, value |-> [success |-> TRUE]]
             ELSE error(404, "Asset not found")
    IN  /\ assets' = IF r.status_code = 200
                     THEN assets \ {<<asset_type, text(filename)>>} ELSE assets
        /\ response' = http("delete", 0, request, r.status_code, r.value)
        /\ UNCHANGED <<store, expiry, queue, eta, worker, nextId, redis_up,
                       clock, files, task_state, runs>>

\* FileManager.list_assets: the file names of the category (the code sorts
\* them; the model returns them as a set)
FileManager_list_assets(asset_type) ==
    IF ~valid_asset_type(asset_type) THEN {}
    ELSE { path[2] : path \in { a \in assets : a[1] = asset_type } }

\* GET /api/assets/{asset_type}
list_assets_api(asset_type) ==
    file_route("list", file_request(asset_type, <<>>, FALSE),
        IF ~valid_asset_type(asset_type) THEN error(400, "Invalid asset type")
        ELSE [ status_code |-> 200,
               value |-> [assets |-> FileManager_list_assets(asset_type)] ])

----------------------------------------------------------------------------
(* The specifications *)

AllFaults == Stages \cup {"watermark", "unlink"}

\* Spec: submissions and the worker pool; every external operation may fail
Next ==
    \/ \E request \in ValidRequests : api_process_video(request, MaxJobs)
    \/ \E w \in Workers : worker_step(w, AllFaults)
    \/ \E w \in Workers : pv_watermark(w, AllFaults)

Spec == Init /\ [][Next]_vars

\* PoolSpec: more submissions than pool processes; the download may fail.
\* Celery executes the tasks it holds and the retries whose countdown has
\* passed: the steps of the pool are weakly fair
PoolNext ==
    \/ \E request \in PlainRequests : api_process_video(request, PoolJobs)
    \/ \E w \in Workers : worker_step(w, {"download"})

PoolSpec ==
    /\ Init
    /\ [][PoolNext]_vars
    /\ WF_vars(\E w \in Workers : worker_step(w, {"download"}))

\* ApiSpec: the API called with any request and any job id, beside the pool
ApiNext ==
    \/ \E request \in PlainRequests \cup InvalidRequests :
          api_process_video(request, ApiJobs)
    \/ \E job_id \in JobIds : api_get_job_status(job_id)
    \/ \E job_id \in JobIds : api_get_job_result(job_id)
    \/ \E w \in Workers : worker_step(w, {"download"})

ApiSpec == Init /\ [][ApiNext]_vars

\* AssetRunSpec: jobs that name an intro and a watermark while the assets
\* are uploaded and deleted; the fetch and ffmpeg succeed on files that
\* exist, except that add_watermark may fail
AssetRequests ==
    [ video_url : {"http://v"}, customer_name : {<<"a">>},
      intro_clip : {"intro.mp4"}, outro_clip : {None},
      transition_style : {"fade"},
      overlay_settings : {[watermark_path |-> "logo.png"]},
      encoding_preset : {"standard"} ]

RunAssets == { <<"intros", <<"intro.mp4">> >>, <<"logos", <<"logo.png">> >> }

AssetRunNext ==
    \/ \E request \in AssetRequests : api_process_video(request, MaxJobs)
    \/ \E w \in Workers : worker_step(w, {})
    \/ \E w \in Workers : pv_watermark(w, {"watermark"})
    \/ \E a \in RunAssets : upload_asset(a[1], a[2], FALSE)
    \/ \E a \in RunAssets : delete_asset(a[1], a[2])

AssetRunSpec == Init /\ [][AssetRunNext]_vars

\* ExpirySpec: jobs run while time passes and Redis expires their keys
ExpiryNext ==
    \/ \E request \in PlainRequests : api_process_video(request, MaxJobs)
    \/ \E w \in Workers : worker_step(w, {"download"})
    \/ time_passes

ExpirySpec == Init /\ [][ExpiryNext]_vars

\* BrokerSpec: two worker instances; processes and instances are lost and
\* the broker redelivers the messages that were not acknowledged
BrokerNext ==
    \/ \E request \in PlainRequests : api_process_video(request, MaxJobs)
    \/ \E w \in ClusterWorkers : worker_step(w, {"download"})
    \/ \E w \in ClusterWorkers : process_lost(w)
    \/ \E n \in 1..Nodes : node_lost(n)
    \/ \E w \in ClusterWorkers : visibility_timeout(w)

BrokerSpec == InitState(ClusterWorkers) /\ [][BrokerNext]_vars

\* OutageSpec: submissions and runs while the commands of the job store
\* fail at times; the broker (settings.celery_broker_url) stays reachable
OutageNext ==
    \/ \E request \in PlainRequests : api_process_video(request, MaxJobs)
    \/ \E w \in Workers : worker_step(w, {"download"})
    \/ redis_changes

OutageSpec == Init /\ [][OutageNext]_vars

\* DownloadSpec: the file routes called with any name of DownloadNames while
\* jobs write their results to the output directory and a logo is uploaded
DownloadNames ==
    { <<"1_final.mp4">>, <<"logo.png">>, <<"..">>, <<"..", "/", "1_final.mp4">> }

DownloadNext ==
    \/ \E request \in PlainRequests : api_process_video(request, MaxJobs)
    \/ \E w \in Workers : worker_step(w, {"download"})
    \/ upload_asset("logos", <<"logo.png">>, FALSE)
    \/ \E filename \in DownloadNames : api_download_file(filename)
    \/ \E filename \in DownloadNames : api_preview_file(filename)
    \/ \E filename \in DownloadNames : api_download_asset("logos", filename)

DownloadSpec == Init /\ [][DownloadNext]_vars

\* AssetSpec: the asset operations called with a category of the three, or
\* with another one, and any name of AssetNames
AssetTypes == {"intros", "logos", "videos"}
AssetNames == { <<"a.mp4">>, <<"b", " ", "c.png">> }

AssetNext ==
    \/ \E asset_type \in AssetTypes, filename \in AssetNames, large \in BOOLEAN :
          upload_asset(asset_type, filename, large)
    \/ \E asset_type \in AssetTypes, filename \in AssetNames :
          delete_asset(asset_type, filename)
    \/ \E asset_type \in AssetTypes : list_assets_api(asset_type)
    \/ \E asset_type \in AssetTypes, filename \in AssetNames :
          api_download_asset(asset_type, filename)

AssetSpec == Init /\ [][AssetNext]_vars

\* StoreSpec: the functions of app.core.storage called by any caller with
\* any job id, while time passes and the commands of Redis fail at times.
\* The call and what it returned are recorded as the last exchange.
StoreIds == 1..MaxJobs

StoreUpdates ==
    { [status |-> "processing", progress |-> 0],
      [progress |-> 5, message |-> "Concatenating videos..."],
      [status |-> "failed", error |-> "Failed to download video"] }

returned_bool(op, job_id, arguments, value) ==
    http(op, job_id, arguments, 0, [returned |-> value])

\* await store_job_info(job_id, job_data)
call_store_job_info(job_id, job_data) ==
    /\ store' = store_job_info_store(job_id, job_data)
    /\ expiry' = store_job_info_expiry(job_id)
    /\ response' = returned_bool("store_job_info", job_id, job_data,
                                 store_job_info_ok)
    /\ UNCHANGED <<queue, eta, worker, nextId, redis_up, clock, assets, files,
                   task_state, runs>>

\* await update_job_status(job_id, **updates)
call_update_job_status(job_id, updates) ==
    /\ store' = update_job_status(job_id, updates)
    /\ response' = returned_bool("update_job_status", job_id, updates,
                                 redis_up)
    /\ UNCHANGED <<expiry, queue, eta, worker, nextId, redis_up, clock, assets,
                   files, task_state, runs>>

StoreNext ==
    \/ \E job_id \in StoreIds, request \in PlainRequests :
          call_store_job_info(job_id, job_data_of(job_id, request))
    \/ \E job_id \in StoreIds, updates \in StoreUpdates :
          call_update_job_status(job_id, updates)
    \/ time_passes
    \/ redis_changes

StoreSpec == Init /\ [][StoreNext]_vars

\* S3Spec: the pool with settings.storage_type = "s3"; the S3 settings may be
\* incomplete, the calls of the S3 client and the stages of the pipeline may
\* fail
S3Next ==
    \/ \E request \in ValidRequests : api_process_video(request, MaxJobs)
    \/ \E w \in Workers :
          \/ task_receive(w)
          \/ task_retry_due(w)
          \/ run_start(w)
          \/ pv_progress(w)
          \/ pv_stage(w, AllFaults)
          \/ pv_watermark(w, AllFaults)
          \/ run_failed(w)
          \/ task_retry(w)
    \/ \E w \in Workers, s3 \in S3Outcomes : run_completed_s3(w, s3)

S3Spec == Init /\ [][S3Next]_vars

\* WatermarkSpec: jobs that ask for a watermark, with and without an anchor
\* position in their overlay options, while the logo is uploaded
WatermarkPositions == {"top-left", "center", "middle"}

WatermarkRequests ==
    [ video_url : {"http://v"}, customer_name : {<<"a">>},
      intro_clip : {None}, outro_clip : {None}, transition_style : {"fade"},
      overlay_settings :
          {[watermark_path |-> "logo.png"]} \cup
          [watermark_path : {"logo.png"}, position : WatermarkPositions],
      encoding_preset : {"standard"} ]

WatermarkNext ==
    \/ \E request \in WatermarkRequests : api_process_video(request, MaxJobs)
    \/ \E w \in Workers : worker_step(w, {"download"})
    \/ \E w \in Workers : pv_watermark(w, {"watermark"})
    \/ upload_asset("logos", <<"logo.png">>, FALSE)

WatermarkSpec == Init /\ [][WatermarkNext]_vars

\* ListSpec: the jobs are listed while jobs are submitted, run and expire
ListNext ==
    \/ \E request \in PlainRequests : api_process_video(request, ApiJobs)
    \/ \E w \in Workers : worker_step(w, {"download"})
    \/ time_passes
    \/ api_list_jobs

ListSpec == Init /\ [][ListNext]_vars

\* CancelSpec: jobs are cancelled, by ids that have a job and ids that have
\* none, while jobs are submitted and run
CancelNext ==
    \/ \E request \in PlainRequests : api_process_video(request, ApiJobs)
    \/ \E w \in Workers : worker_step(w, {"download"})
    \/ \E job_id \in JobIds : api_cancel_job(job_id)

CancelSpec == Init /\ [][CancelNext]_vars

\* TransitionSpec: two pool processes run two jobs, submitted with any of the
\* transition styles, on the same file system; the download and the encode
\* may fail
TransitionStyles == {"fade", "cut", "slide"}
TwinWorkers == {1, 2}

StyleRequests ==
    [ video_url : {"http://v"}, customer_name : {<<"a">>},
      intro_clip : {None}, outro_clip : {None},
      transition_style : TransitionStyles,
      overlay_settings : {EmptyHash}, encoding_preset : {"standard"} ]

TransitionNext ==
    \/ \E request \in StyleRequests :
          api_process_video(request, Cardinality(TwinWorkers))
    \/ \E w \in TwinWorkers : worker_step(w, {"download", "encode"})

TransitionSpec == InitState(TwinWorkers) /\ [][TransitionNext]_vars

----------------------------------------------------------------------------
(* Reads of the job store *)

Terminal == {"completed", "failed"}

\* a status read of job_id finds a record
has_record(job_id) == ~falsy(get_job_status(job_id))

\* the status and the progress (in tenths) a status read of job_id shows
status_of(job_id) == get(get_job_status(job_id), "status")
progress_of(job_id) == get_job_status(job_id)["progress"]

\* a field of the record is set to something non-empty
non_empty(job_id, field) == get(get_job_status(job_id), field) \notin {None, ""}

StatusRank(status) ==
    CASE status = "pending" -> 0
      [] status = "processing" -> 1
      [] status \in Terminal -> 2

\* the pool processes that execute a task of job_id
running(job_id) ==
    { w \in DOMAIN worker :
        worker[w].pc /= "idle" /\ worker[w].msg.job_id = job_id }

\* the task messages of job_id that wait for a pool process
waiting(job_id) ==
    { i \in 1..Len(queue) : queue[i].job_id = job_id }
    \cup { m \in eta : m.job_id = job_id }

\* job_id was accepted by POST /process
accepted(job_id) == job_id < nextId

----------------------------------------------------------------------------
(* Claims *)

\* C1: the status of a job only moves pending -> processing -> completed or
\* failed, a read that shows completed or failed is never followed by a read
\* that shows another status, and failed is written only by the attempt that
\* exhausts the retries.
C1_StatusMonotonic ==
    [][\A j \in JobIds :
          (has_record(j) /\ has_record(j)') =>
             /\ StatusRank(status_of(j)') >= StatusRank(status_of(j))
             /\ status_of(j) \in Terminal => status_of(j)' = status_of(j)
             /\ (status_of(j)' = "failed" /\ status_of(j) /= "failed") =>
                   \E w \in running(j) : retries_exhausted(worker[w].msg.retries)
      ]_vars

\* C2: from submission until a read shows a terminal status (that read
\* included), the progress read for a job never decreases.
C2_ProgressNonDecreasing ==
    [][\A j \in JobIds :
          (has_record(j) /\ has_record(j)' /\ status_of(j) \notin Terminal) =>
             progress_of(j)' >= progress_of(j)
      ]_vars

\* C3: a completed record has a result_url and no error, a failed record has
\* an error and no result_url.
C3_ExactlyOneOfResultAndError ==
    \A j \in JobIds :
        has_record(j) =>
          /\ status_of(j) = "completed" =>
                (non_empty(j, "result_url") /\ ~non_empty(j, "error"))
          /\ status_of(j) = "failed" =>
                (non_empty(j, "error") /\ ~non_empty(j, "result_url"))

\* C4: run_processing is entered at most 3 times for a job; a job whose
\* every attempt failed has been executed exactly 3 times, has no task
\* message left and has status failed, and from then on its record and its
\* task do not change; a job whose record shows pending or processing has a
\* task message waiting or a pool process executing it.
C4_Inv ==
    \A j \in JobIds :
        /\ runs[j] <= max_retries + 1
        /\ task_state[j] = "FAILURE" =>
              /\ runs[j] = max_retries + 1
              /\ running(j) = {} /\ waiting(j) = {}
              /\ has_record(j) /\ status_of(j) = "failed"
        /\ (has_record(j) /\ status_of(j) \in {"pending", "processing"}) =>
              (running(j) /= {} \/ waiting(j) /= {})
        /\ (task_state[j] = "RETRY" /\ running(j) = {}) =>
              \E m \in eta : m.job_id = j /\ m.retries = runs[j]

C4_ThreeRunsThenFailed ==
    /\ []C4_Inv
    /\ [][\A j \in JobIds :
             task_state[j] = "FAILURE" =>
                /\ store[j]' = store[j]
                /\ task_state[j]' = "FAILURE"
                /\ runs[j]' = runs[j]
         ]_vars

C4_Witness ==
    \E j \in JobIds :
        /\ task_state[j] = "FAILURE" /\ runs[j] = max_retries + 1
        /\ status_of(j) = "failed"
        /\ get(store[j], "error") = "Failed to download video"

\* C5: at most max_concurrent_jobs records show processing, every record
\* that shows processing is executed by a pool process, and a pool process
\* executes one task.
C5_AtMostNProcessing ==
    LET processing == { j \in JobIds : has_record(j) /\ status_of(j) = "processing" }
    IN  /\ Cardinality(processing) <= max_concurrent_jobs
        /\ \A j \in processing : running(j) /= {}
        /\ \A j, k \in JobIds : (running(j) \cap running(k) /= {}) => j = k

C5_Witness ==
    /\ Cardinality({ j \in JobIds : has_record(j) /\ status_of(j) = "processing" })
          = max_concurrent_jobs
    /\ \E j \in JobIds : has_record(j) /\ status_of(j) = "pending" /\ waiting(j) /= {}

\* C6: under weak fairness of the pool processes every accepted job reaches
\* a state in which its record shows completed or failed and no task of it
\* is waiting or executing.
Settled(j) ==
    /\ has_record(j) /\ status_of(j) \in Terminal
    /\ running(j) = {} /\ waiting(j) = {}

C6_EveryJobSettles == []<>(\A j \in JobIds : accepted(j) => Settled(j))

C6_Witness ==
    /\ nextId > max_concurrent_jobs + 1
    /\ \A j \in JobIds : accepted(j) => Settled(j)
    /\ \E j \in JobIds : accepted(j) /\ status_of(j) = "failed"
    /\ \E j \in JobIds : accepted(j) /\ status_of(j) = "completed" /\ runs[j] > 1

\* C7: GET /status/{job_id} answers 200 with the status, progress, message,
\* result_url, error, created_at and completed_at of the record of job_id
\* when there is one, and 404 when there is none.
C7_StatusReturnsRecord ==
    [][\A job_id \in JobIds :
          api_get_job_status(job_id) =>
             IF has_record(job_id)
             THEN /\ response'.status_code = 200
                  /\ response'.body = JobStatusResponse(get_job_status(job_id))
             ELSE response'.status_code = 404
      ]_vars

\* C8: GET /result/{job_id} answers a client error that names the status and
\* gives no result reference while the job is pending, processing or failed,
\* and answers the result_url of the record once the job is completed.
C8_ResultConflictThenUrl ==
    [][\A job_id \in JobIds :
          (api_get_job_result(job_id) /\ has_record(job_id)) =>
             IF status_of(job_id) = "completed"
             THEN /\ response'.status_code = 200
                  /\ response'.body.download_url = store[job_id]["result_url"]
             ELSE /\ response'.status_code \in 400..499
                  /\ response'.body =
                        [detail |-> <<"Job is not completed. Current status: ",
                                      status_of(job_id)>>]
      ]_vars

\* the customer_name of a request is empty or only whitespace
blank(customer_name) == Len(strip(customer_name)) = 0

\* C9: a step that answers a submission whose customer_name is empty or
\* only whitespace answers an error and leaves the job store, the key
\* expiries, the queue and the retry messages as they were.
C9_BlankLabelNoSideEffect ==
    [][(/\ response' /= response
        /\ response'.op = "process"
        /\ blank(response'.request.customer_name)) =>
          /\ response'.status_code >= 400
          /\ UNCHANGED <<store, expiry, queue, eta, worker, nextId, task_state>>
      ]_vars

C9_Witness ==
    /\ response.op = "process"
    /\ response.request.customer_name = <<" ">>
    /\ response.status_code >= 400
    /\ \E j \in JobIds : has_record(j)

\* C10: a submission with an empty customer_name or without video_url is
\* answered with a 4xx status code.
C10_InvalidSubmissionIsClientError ==
    (/\ response.op = "process"
     /\ (response.request.video_url = None \/ blank(response.request.customer_name))) =>
        response.status_code \in 400..499

\* the files process_video registered for job_id, wherever they are on disk
job_temp_files(job_id) ==
    { input_video(job_id), concat_output(job_id), text_overlay_video(job_id),
      watermark_video(job_id) }

\* C13: when process_video has returned or raised, none of the temporary
\* files of the job is on disk, and the outcome is that of the external
\* operations: a run raises "Failed to concatenate videos" only when the
\* concatenation itself failed, not when the removal of its file list did.
C13_CleanupKeepsOutcome ==
    \A w \in DOMAIN worker :
        worker[w].pc \in {"completed", "failed"} =>
          /\ job_temp_files(worker[w].msg.job_id) \cap files = {}
          /\ (/\ worker[w].pc = "failed"
              /\ worker[w].exc = Stage["concat"].error) => ~worker[w].success

\* C11: when the fetch and ffmpeg do not fail on their own, a run of a job
\* that names an intro never fails, whether the intro file is absent from
\* the start or deleted during the run: no attempt ends in the except block
\* and no record shows failed or an error.
C11_MissingAssetNeverFails ==
    /\ \A w \in DOMAIN worker : worker[w].pc \notin {"failed", "retry"}
    /\ \A j \in JobIds :
          has_record(j) => (status_of(j) /= "failed" /\ ~non_empty(j, "error"))

\* add_watermark was called in the step of pool process w and returned False
watermark_failed(w) ==
    /\ worker[w].pc = "watermark"
    /\ worker'[w] /= worker[w]
    /\ os_path_exists(<<"logos", worker[w].msg.overlay_settings.watermark_path>>)
    /\ worker'[w].current_video /= watermark_video(worker[w].msg.job_id)

\* download_video, concatenate_videos or encode_video was called in the step
\* of pool process w and returned False
stage_failed(w) ==
    /\ worker[w].pc \in Stages
    /\ worker'[w] /= worker[w]
    /\ worker'[w].pc /=
          (IF worker[w].pc = "concat"
           THEN after_concat(worker[w].msg.overlay_settings)
           ELSE Stage[worker[w].pc].next)

\* C14: a step in which download, concatenation, watermark overlay or final
\* encode fails ends the run: process_video raises (no later operation is
\* called) and the exception carries the cause of that stage.
C14_StageFailureAborts ==
    [][\A w \in DOMAIN worker :
          /\ stage_failed(w) =>
                /\ worker'[w].pc = "failed"
                /\ worker'[w].exc = Stage[worker[w].pc].error
          /\ watermark_failed(w) => worker'[w].pc = "failed"
      ]_vars

\* C12: a record exists only before its expiry deadline, which is the
\* creation time of the job plus job_expiry_hours: once the deadline has
\* passed no record of the id exists, and no record is without deadline.
C12_RecordGoneAfterExpiry ==
    \A j \in JobIds :
        has_record(j) =>
          /\ expiry[j] >= 0
          /\ clock < expiry[j]
          /\ "created_at" \in DOMAIN store[j]
          /\ expiry[j] = store[j]["created_at"] + job_expiry_hours * 3600

\* C20: a store operation on the id of an accepted job that has no record
\* (an update: the record has expired) creates no record.
C20_UpdateOfMissingCreatesNothing ==
    [][\A j \in JobIds :
          (accepted(j) /\ ~has_record(j)) => ~has_record(j)'
      ]_vars

\* C15: a job whose record shows pending or processing always has its work
\* item with the dispatcher: a pool process is executing it, or its message
\* waits in the queue or for its retry countdown, also after a pool process
\* or a worker instance was lost.
C15_InFlightJobIsRecoverable ==
    \A j \in JobIds :
        (has_record(j) /\ status_of(j) \in {"pending", "processing"}) =>
            (running(j) /= {} \/ waiting(j) /= {})

\* C16: at most one pool process executes a task of a given job.
C16_OneRunPerJob ==
    \A j \in JobIds : Cardinality(running(j)) <= 1

\* C17: every job that has a message in the queue, a retry waiting or a pool
\* process executing it has a record written by its submission (with its
\* created_at and an expiry deadline); a job that waits for its first
\* execution shows pending, progress 0.0, no result_url and no error.
C17_RecordBeforeEnqueue ==
    \A j \in JobIds :
        (running(j) /= {} \/ waiting(j) /= {}) =>
          /\ "created_at" \in DOMAIN store[j]
          /\ expiry[j] >= 0
          /\ runs[j] = 0 =>
                /\ store[j]["status"] = "pending"
                /\ store[j]["progress"] = str_progress(0)
                /\ DOMAIN store[j] \cap {"result_url", "error"} = {}


\* the directory a file route serves from ------------------------------------
route_dir(r) == IF r.op = "asset" THEN r.request.asset_type ELSE "outputs"

\* the path the route builds: os.path.join(directory, os.path.basename(filename))
route_path(r) == <<route_dir(r), text(basename(r.request.filename))>>

\* C18: whenever the download, the preview or the asset retrieval route does
\* not reject a request with a client error, the path it builds from the base
\* name of the request names an entry directly inside the route's directory
\* (not the directory itself and not its parent), and the route answers by
\* sending that regular file.
C18_ServesOnlyFilesInside ==
    (/\ response.op \in {"download", "preview", "asset"}
     /\ response.status_code \notin 400..499)
    => /\ "/" \notin Range(basename(response.request.filename))
       /\ route_path(response)[2] \notin {"", ".", ".."}
       /\ response.status_code = 200
       /\ response.body = [path |-> route_path(response)]


\* C19: a retrieve, upload, delete or list operation called with a category
\* other than intros, outros and logos answers with a client error (4xx) that
\* carries no file and no listing, and the step leaves every file on disk as
\* it was.
C19_OtherCategoryRejected ==
    [][ (/\ response'.op \in {"asset", "upload", "delete", "list"}
         /\ response'.request.asset_type \notin {"intros", "outros", "logos"})
        => /\ response'.status_code \in 400..499
           /\ DOMAIN response'.body = {"detail"}
           /\ assets' = assets
           /\ files' = files ]_vars

\* a category that is not one of the three was rejected with 400 while assets
\* were stored
C19_Witness ==
    /\ response.op \in {"asset", "upload", "delete", "list"}
    /\ response.request.asset_type = "videos"
    /\ response.status_code = 400
    /\ assets /= {}


\* C21: store_job_info called for an id that has a record leaves the record
\* and its expiry deadline as they were and does not report success (it
\* reports that the record already exists).
C21_CreateOfExistingRefused ==
    [][ (/\ response'.op = "store_job_info"
         /\ response' /= response
         /\ store[response'.job_id] /= EmptyHash)
        => /\ store' = store
           /\ expiry' = expiry
           /\ response'.body.returned /= TRUE ]_vars


\* the fields a call of update_job_status names, and the timestamp it sets
written_fields(updates) == DOMAIN updates \cup {"updated_at"}

\* C22: a call of update_job_status that Redis accepts sets the fields it
\* names (progress as a string) and updated_at, and changes nothing else: the
\* other fields of the record keep their presence and their values, the
\* records of the other jobs and every expiry deadline stay as they were.
C22_UpdateMerges ==
    [][ (/\ response'.op = "update_job_status"
         /\ response' /= response
         /\ response'.body.returned = TRUE)
        => LET job_id == response'.job_id
               updates == response'.request
           IN  /\ DOMAIN store'[job_id] =
                     DOMAIN store[job_id] \cup written_fields(updates)
               /\ \A f \in DOMAIN store[job_id] \ written_fields(updates) :
                     store'[job_id][f] = store[job_id][f]
               /\ \A f \in DOMAIN updates \ {"progress"} :
                     store'[job_id][f] = updates[f]
               /\ "progress" \in DOMAIN updates =>
                     store'[job_id]["progress"] = str_progress(updates["progress"])
               /\ \A j \in JobIds \ {job_id} : store'[j] = store[j]
               /\ expiry' = expiry ]_vars

\* a record that was created and updated before (message) has been updated
\* on other fields (status, error) and still has its expiry deadline
C22_Witness ==
    /\ response.op = "update_job_status"
    /\ response.body.returned = TRUE
    /\ "error" \in DOMAIN response.request
    /\ "created_at" \in DOMAIN store[response.job_id]
    /\ "video_url" \in DOMAIN store[response.job_id]
    /\ "message" \in DOMAIN store[response.job_id]
    /\ store[response.job_id]["message"] = "Concatenating videos..."
    /\ store[response.job_id]["status"] = "failed"
    /\ expiry[response.job_id] >= 0


\* C23: in every state of the job store a record has progress 1.0 exactly
\* when its status is completed, and a record whose status is pending (as
\* written by the submission) has progress 0.0.
C23_FullProgressIffCompleted ==
    \A j \in JobIds :
        {"status", "progress"} \subseteq DOMAIN store[j] =>
          /\ store[j]["progress"] = str_progress(10)
                <=> store[j]["status"] = "completed"
          /\ store[j]["status"] = "pending" =>
                store[j]["progress"] = str_progress(0)


\* C24: completed_at is in a record only while its status is completed, and
\* the update that writes it (the one that ends run_processing with success)
\* is made on a record that has no completed_at yet.
C24_CompletedAtOnce ==
    [][ \A j \in JobIds :
          /\ "completed_at" \in DOMAIN store'[j] =>
                store'[j]["status"] = "completed"
          /\ \A w \in DOMAIN worker :
                (/\ worker[w].pc = "completed"
                 /\ worker[w].msg.job_id = j
                 /\ worker'[w] /= worker[w])
                => "completed_at" \notin DOMAIN store[j] ]_vars


\* the external operation process_video is about to call at each position, in
\* the order of the pipeline
stage_rank(pc) ==
    CASE pc = "download" -> 1 [] pc = "concat" -> 2 [] pc = "watermark" -> 3
      [] pc = "encode" -> 4 [] OTHER -> 0

\* the progress of the record of job j, in tenths
progress_of_record(h) == float(h["progress"])

\* C25: within a run the operations download, concatenate, watermark overlay
\* and final encode are called in that order, each at most once and each only
\* after the one called before it succeeded (after add_watermark was called,
\* the run goes on to the encode only with the watermarked video); each
\* checkpoint writes a progress greater than the one in the record, and the
\* last checkpoint of a run that succeeded writes 1.0.
C25_StagesInOrder ==
    [][ \A w \in DOMAIN worker :
          LET t == worker[w]
              u == worker'[w]
              j == t.msg.job_id
          IN  (t.pc \notin {"idle", "retry"} /\ u /= t /\ u.pc \notin {"idle", "retry"})
              => /\ (stage_rank(t.pc) > 0 /\ stage_rank(u.pc) > 0) =>
                        stage_rank(u.pc) > stage_rank(t.pc)
                 /\ (t.pc \in Stages /\ u.pc /= "failed") =>
                        u.pc = (IF t.pc = "concat"
                                THEN after_concat(t.msg.overlay_settings)
                                ELSE Stage[t.pc].next)
                 /\ (/\ t.pc = "watermark"
                     /\ os_path_exists(<<"logos", t.msg.overlay_settings.watermark_path>>)
                     /\ u.pc /= "failed")
                    => u.current_video = watermark_video(j)
                 /\ (t.pc \in DOMAIN Checkpoint /\ store'[j] /= store[j]) =>
                        /\ progress_of_record(store'[j]) > progress_of_record(store[j])
                        /\ t.pc = "pv_done" => store'[j]["progress"] = str_progress(10)
      ]_vars


\* C26: with storage_type s3, when the S3 settings are incomplete or a call
\* of the S3 client raises, the run whose encode succeeded ends with success:
\* the task is not retried, the record is completed with the local reference
\* /api/v1/download/{job_id}_final.mp4 and the output file stays on disk; the
\* output file is removed only when the upload returned and the presigned
\* URL was produced, and the record then carries that URL.
C26_S3FallsBackToLocal ==
    [][ \A w \in DOMAIN worker, s3 \in S3Outcomes :
          run_completed_s3(w, s3) =>
            LET j == worker[w].msg.job_id
                fell_back == ~s3.configured \/ ~s3.uploaded \/ ~s3.presigned
            IN  /\ worker'[w] = Idle
                /\ task_state'[j] = "SUCCESS"
                /\ eta' = eta /\ queue' = queue
                /\ store'[j]["status"] = "completed"
                /\ "error" \notin DOMAIN store'[j] \ DOMAIN store[j]
                /\ fell_back =>
                      /\ store'[j]["result_url"] =
                            "/api/v1/download/" \o ToString(j) \o "_final.mp4"
                      /\ final_output(j) \in files'
                /\ final_output(j) \notin files' =>
                      /\ ~fell_back
                      /\ store'[j]["result_url"] = presigned_url(final_name(j))
      ]_vars

\* a job was completed with the local reference while its output file is on
\* disk, after at least one failed attempt
C26_Witness ==
    \E j \in JobIds :
        /\ task_state[j] = "SUCCESS"
        /\ store[j]["status"] = "completed"
        /\ store[j]["result_url"] = "/api/v1/download/" \o final_name(j)
        /\ final_output(j) \in files


\* the anchor position the overlay options of a job ask for: the requested
\* one when it is one of the five, bottom-right when it is absent or unknown
requested_position(overlay_settings) ==
    IF /\ "position" \in DOMAIN overlay_settings
       /\ overlay_settings["position"] \in
             {"top-left", "top-right", "bottom-left", "bottom-right", "center"}
    THEN overlay_settings["position"]
    ELSE "bottom-right"

\* C27: in a run that has called add_watermark, the overlay was placed at the
\* anchor position the job's overlay options ask for, and at bottom-right when
\* they name none or an unknown one.
C27_WatermarkAtRequestedPosition ==
    \A w \in DOMAIN worker :
        (worker[w].pc /= "idle" /\ worker[w].pos /= None) =>
            worker[w].pos =
                positions[requested_position(worker[w].msg.overlay_settings)]


\* the messages of the program that say the text overlay is not implemented
says_not_implemented(message) ==
    message = "Text overlay requested but not implemented in this version"

\* C28: the step of a run that handles a requested customer text overlay
\* leaves the working video as it was and does not fail the run, and the
\* message it writes to the record says that the text overlay is not
\* implemented.
C28_TextOverlayNoOp ==
    [][ \A w \in DOMAIN worker :
          (worker[w].pc = "pv_text" /\ worker'[w] /= worker[w]) =>
            LET j == worker[w].msg.job_id IN
            /\ worker'[w].pc \notin {"failed", "retry", "idle"}
            /\ worker'[w].current_video = worker[w].current_video
            /\ says_not_implemented(store'[j]["message"])
      ]_vars


\* C29: the answer of GET /jobs enumerates the jobs that have a record in the
\* job store when the route is called: it is empty only when there is none,
\* and it contains every job that was submitted and has not expired.
C29_ListJobsEnumeratesStore ==
    [][ (response'.op = "jobs" /\ response' /= response) =>
           /\ response'.status_code = 200
           /\ Range(response'.body.jobs) =
                 { j \in JobIds : store[j] /= EmptyHash } ]_vars


\* C30: after an upload that succeeded, the filename the response reports is
\* the name under which the asset is stored in its category (so listing,
\* retrieving and deleting by that name find it), and the upload of a name
\* under which nothing is stored adds a file instead of replacing one.
C30_ReportedNameIsStoredName ==
    [][ (/\ response'.op = "upload"
         /\ response'.status_code = 200
         /\ response' /= response)
        => LET stored == <<response'.request.asset_type, response'.body.filename>>
           IN  /\ stored \in assets'
               /\ stored \notin assets =>
                     Cardinality(assets') = Cardinality(assets) + 1 ]_vars


\* C31: when the task of a job returns with success, the record of the job
\* has status completed and a result reference; when an attempt ends in
\* error (run_processing has made its failed update and goes on to
\* self.retry), the record has status failed and the error detail.
C31_RecordAgreesWithOutcome ==
    [][ \A j \in JobIds :
          /\ (task_state'[j] = "SUCCESS" /\ task_state[j] /= "SUCCESS") =>
                /\ {"status", "result_url"} \subseteq DOMAIN store'[j]
                /\ store'[j]["status"] = "completed"
          /\ \A w \in DOMAIN worker :
                (/\ worker[w].pc = "failed"
                 /\ worker[w].msg.job_id = j
                 /\ worker'[w] /= worker[w])
                => /\ {"status", "error"} \subseteq DOMAIN store'[j]
                   /\ store'[j]["status"] = "failed"
                   /\ store'[j]["error"] = worker[w].exc
      ]_vars


\* C32: a call of cancel_job, for an id with or without job, answers 200 with
\* the message that the cancellation of that id was requested and leaves the
\* records and deadlines of the job store, the queue, the waiting retries,
\* the running tasks and their states as they were.
C32_CancelChangesNothing ==
    [][ (response'.op = "cancel" /\ response' /= response) =>
           /\ response'.status_code = 200
           /\ response'.body =
                 [message |-> <<"Job ", response'.job_id, " cancellation requested">>]
           /\ store' = store /\ expiry' = expiry
           /\ queue' = queue /\ eta' = eta
           /\ worker' = worker /\ task_state' = task_state /\ runs' = runs
      ]_vars

\* the job whose message waits in the queue was cancelled, and its message
\* still waits
C32_Witness ==
    /\ response.op = "cancel"
    /\ queue /= <<>>
    /\ response.job_id = queue[1].job_id
    /\ store[response.job_id] /= EmptyHash


\* C33: with local storage the record of every completed job carries the
\* result reference /api/v1/download/{job_id}_final.mp4, the output file of
\* that name exists in the output directory, and the download route called
\* with that name answers 200 with exactly that file.
C33_ResultUrlResolves ==
    \A j \in JobIds :
        ({"status"} \subseteq DOMAIN store[j] /\ store[j]["status"] = "completed")
        => LET name == <<ToString(j) \o "_final.mp4">> IN
           /\ "result_url" \in DOMAIN store[j]
           /\ store[j]["result_url"] = "/api/v1/download/" \o text(name)
           /\ final_output(j) \in files
           /\ download_file(name) =
                 [status_code |-> 200, value |-> [path |-> final_output(j)]]

\* the output of a completed job was downloaded by the name in its result
\* reference
C33_Witness ==
    \E j \in JobIds :
        /\ {"status", "result_url"} \subseteq DOMAIN store[j]
        /\ store[j]["status"] = "completed"
        /\ response.op = "download"
        /\ response.status_code = 200
        /\ store[j]["result_url"] = "/api/v1/download/" \o text(response.request.filename)
        /\ response.body = [path |-> final_output(j)]


\* two task messages that differ at most in the job and the transition style
twin_messages(m1, m2) ==
    [m1 EXCEPT !.job_id = 0, !.transition_style = None] =
    [m2 EXCEPT !.job_id = 0, !.transition_style = None]

\* the directories of a sequence of paths (the names carry the job id)
RECURSIVE directories(_)
directories(paths) ==
    IF paths = <<>> THEN <<>>
    ELSE <<Head(paths)[1]>> \o directories(Tail(paths))

\* what a status read shows of the progress updates of a job
written_status(j) ==
    [ f \in {"status", "progress", "message"} \cap DOMAIN store[j] |-> store[j][f] ]

\* C34: two runs whose messages differ only in the transition style (and the
\* job id), on the same file system, that are at the same statement with
\* the same outcomes of the operations so far, have called the external
\* operations with the same inputs (the same segment list, the same working
\* video, the same temporary files, the same overlay position), have
\* written the same status, progress and message, and have the same result.
C34_TransitionStyleIgnored ==
    \A w1, w2 \in DOMAIN worker :
        LET t1 == worker[w1]
            t2 == worker[w2]
        IN  (/\ t1.pc /= "idle" /\ t2.pc /= "idle"
             /\ twin_messages(t1.msg, t2.msg)
             /\ t1.pc = t2.pc
             /\ t1.success = t2.success)
            => /\ directories(t1.video_segments) = directories(t2.video_segments)
               /\ directories(t1.temp_files) = directories(t2.temp_files)
               /\ t1.current_video[1] = t2.current_video[1]
               /\ t1.pos = t2.pos
               /\ t1.exc = t2.exc
               /\ written_status(t1.msg.job_id) = written_status(t2.msg.job_id)

\* two runs with different transition styles are past the concatenation, at
\* the same statement
C34_Witness ==
    \E w1, w2 \in DOMAIN worker :
        /\ worker[w1].pc = "encode" /\ worker[w2].pc = "encode"
        /\ worker[w1].msg.transition_style = "fade"
        /\ worker[w2].msg.transition_style = "cut"
        /\ worker[w1].msg.retries = 1 /\ worker[w2].msg.retries = 1

============================================================================
